---- MODULE Spec2Model ----
(***************************************************************************)
(* Model of mentoring/light_children.py: the light-children tree builder   *)
(* (LightChildrenMixin), the LightChild runtime object (lazy student_data, *)
(* load_student_data, save, get_lightchild_model_object) and the           *)
(* LightChildField descriptors with their write coercions.                 *)
(***************************************************************************)
EXTENDS Integers, Sequences, FiniteSets, TLC

(***************************************************************************)
(* Python values.  A value is a record tagged with its Python type; text   *)
(* is a sequence of one-character strings, floats are kept in tenths.      *)
(***************************************************************************)
VNone == [t |-> "none"]
VStr(cs) == [t |-> "str", s |-> cs]
VInt(n) == [t |-> "int", i |-> n]
VFloat(x) == [t |-> "float", f |-> x]
VBool(v) == [t |-> "bool", b |-> v]
VList(items) == [t |-> "list", l |-> items]
VDict(entries) == [t |-> "dict", d |-> entries]
\* the text json.dumps produces: a str whose content is a token sequence
JsonText(tokens) == [t |-> "str", j |-> tokens]
\* an attribute or descriptor slot that was never assigned
Unset == [t |-> "unset"]

IsText(v) == v.t = "str" /\ "s" \in DOMAIN v
IsNumber(v) == v.t \in {"int", "float", "bool"}
\* the numeric value in tenths (Python compares 0 == 0.0 == False as equal)
Tenths(v) == CASE v.t = "int" -> 10 * v.i
               [] v.t = "float" -> v.f
               [] v.t = "bool" -> IF v.b THEN 10 ELSE 0
               [] OTHER -> 0

\* Python == on the values of the model
PyEq(a, b) == IF IsNumber(a) /\ IsNumber(b) THEN Tenths(a) = Tenths(b) ELSE a = b

\* Python truth value (bool(x))
Truthy(v) == CASE v.t = "none" -> FALSE
               [] v.t = "unset" -> FALSE
               [] v.t = "str" -> IF "s" \in DOMAIN v THEN Len(v.s) > 0
                                 ELSE IF "j" \in DOMAIN v THEN Len(v.j) > 0
                                 ELSE TRUE
               [] v.t = "int" -> v.i # 0
               [] v.t = "float" -> v.f # 0
               [] v.t = "bool" -> v.b
               [] v.t = "list" -> Len(v.l) > 0
               [] v.t = "dict" -> Len(v.d) > 0
               [] OTHER -> TRUE

(***************************************************************************)
(* Text helpers used by int(), float() and str.lower().                    *)
(***************************************************************************)
Digits == <<"0", "1", "2", "3", "4", "5", "6", "7", "8", "9">>

IsDigit(c) == \E k \in 1..10 : Digits[k] = c

DigitVal(c) == (CHOOSE k \in 1..10 : Digits[k] = c) - 1

Upper == <<"A", "B", "E", "F", "L", "N", "O", "R", "S", "T", "U">>

LowerOf == <<"a", "b", "e", "f", "l", "n", "o", "r", "s", "t", "u">>

LowerChar(c) == IF \E k \in 1..Len(Upper) : Upper[k] = c
                THEN LowerOf[CHOOSE k \in 1..Len(Upper) : Upper[k] = c]
                ELSE c

\* str.lower()
Lower(cs) == [k \in 1..Len(cs) |-> LowerChar(cs[k])]

RECURSIVE StripLeft(_)
StripLeft(cs) == IF Len(cs) > 0 /\ cs[1] = " " THEN StripLeft(Tail(cs)) ELSE cs

RECURSIVE StripRight(_)
StripRight(cs) == IF Len(cs) > 0 /\ cs[Len(cs)] = " "
                  THEN StripRight(SubSeq(cs, 1, Len(cs) - 1))
                  ELSE cs

\* str.strip()
Strip(cs) == StripRight(StripLeft(cs))

AllDigits(cs) == Len(cs) > 0 /\ \A k \in 1..Len(cs) : IsDigit(cs[k])

RECURSIVE DigitsValue(_)
DigitsValue(cs) == IF Len(cs) = 0 THEN 0
                   ELSE 10 * DigitsValue(SubSeq(cs, 1, Len(cs) - 1)) + DigitVal(cs[Len(cs)])

HasSign(cs) == Len(cs) > 0 /\ cs[1] \in {"-", "+"}

Unsigned(cs) == IF HasSign(cs) THEN Tail(cs) ELSE cs

SignOf(cs) == IF Len(cs) > 0 /\ cs[1] = "-" THEN -1 ELSE 1

DotAt(cs) == IF \E k \in 1..Len(cs) : cs[k] = "."
             THEN CHOOSE k \in 1..Len(cs) : cs[k] = "." /\ \A m \in 1..(k - 1) : cs[m] # "."
             ELSE 0

Ok(v) == [exc |-> "none", val |-> v]
Raise(e) == [exc |-> e, val |-> VNone]

\* int() of stripped text: an optional sign, then digits only
ParseInt(cs) ==
    IF AllDigits(Unsigned(cs)) THEN Ok(VInt(SignOf(cs) * DigitsValue(Unsigned(cs))))
    ELSE Raise("ValueError")

\* int(value): text is parsed in base 10 (surrounding blanks and a sign are
\* allowed), a float is truncated toward zero, None and containers are a TypeError
PyInt(v) ==
    CASE v.t = "int" -> Ok(v)
      [] v.t = "bool" -> Ok(VInt(IF v.b THEN 1 ELSE 0))
      [] v.t = "float" -> Ok(VInt(IF v.f >= 0 THEN v.f \div 10 ELSE -((-v.f) \div 10)))
      [] v.t = "str" /\ IsText(v) -> ParseInt(Strip(v.s))
      [] OTHER -> Raise("TypeError")

\* the decimal with integer digits ip and fraction digits fp, in tenths
Decimal(sign, ip, fp) ==
    IF /\ Len(ip) + Len(fp) > 0
       /\ \A k \in 1..Len(ip) : IsDigit(ip[k])
       /\ \A k \in 1..Len(fp) : IsDigit(fp[k])
    THEN Ok(VFloat(sign * (10 * DigitsValue(ip) + (IF Len(fp) > 0 THEN DigitVal(fp[1]) ELSE 0))))
    ELSE Raise("ValueError")

SplitDecimal(sign, body, dot) ==
    IF dot = 0 THEN Decimal(sign, body, <<>>)
    ELSE Decimal(sign, SubSeq(body, 1, dot - 1), SubSeq(body, dot + 1, Len(body)))

\* float() of stripped text
ParseFloat(cs) == SplitDecimal(SignOf(cs), Unsigned(cs), DotAt(Unsigned(cs)))

\* float(value): text is parsed as a decimal (one fractional digit is kept)
PyFloat(v) ==
    CASE v.t = "float" -> Ok(v)
      [] v.t = "int" -> Ok(VFloat(10 * v.i))
      [] v.t = "bool" -> Ok(VFloat(IF v.b THEN 10 ELSE 0))
      [] v.t = "str" /\ IsText(v) -> ParseFloat(Strip(v.s))
      [] OTHER -> Raise("TypeError")

(***************************************************************************)
(* LightChildField descriptors: defaults and __set__.                      *)
(***************************************************************************)
Kinds == {"String", "Integer", "Boolean", "Float", "List"}

\* self.default of each field class when no default is declared
DefaultOf(kind) == CASE kind = "String" -> VStr(<<>>)
                     [] kind = "Integer" -> VInt(0)
                     [] kind = "Boolean" -> VBool(FALSE)
                     [] kind = "Float" -> VInt(0)
                     [] kind = "List" -> VList(<<>>)

\* LightChildField.__set__ (String and List inherit it): the value as given
BaseSet(value) == Ok(value)

\* the except clause of Integer.__set__ and Float.__set__: 0 is stored
ZeroOnFailure(r) == IF r.exc \in {"TypeError", "ValueError"} THEN Ok(VInt(0)) ELSE r

\* Integer.__set__
IntegerSet(value) == ZeroOnFailure(PyInt(value))

\* Boolean.__set__ (BooleanSetCaseSensitive: the variant without value.lower())
BooleanSetCaseSensitive(value) ==
    IF value.t = "str" THEN Ok(VBool(value.s = <<"t", "r", "u", "e">>)) ELSE Ok(value)
BooleanSet(value) ==
    IF value.t = "str" THEN Ok(VBool(Lower(value.s) = <<"t", "r", "u", "e">>)) ELSE Ok(value)

\* Float.__set__
FloatSet(value) == ZeroOnFailure(PyFloat(value))

\* the descriptor's __set__ chosen by the field class; the result is the
\* value stored in self.data[instance], or the exception raised
FieldSet(kind, value) == CASE kind = "Integer" -> IntegerSet(value)
                           [] kind = "Boolean" -> BooleanSet(value)
                           [] kind = "Float" -> FloatSet(value)
                           [] OTHER -> BaseSet(value)

(***************************************************************************)
(* json.dumps / json.loads on the student_data mapping.  The text is a     *)
(* token sequence: an opening brace, one pair per entry, a closing brace.  *)
(***************************************************************************)
RECURSIVE JsonEncode(_)
JsonEncode(v) ==
    CASE v.t = "none" -> [j |-> "null"]
      [] v.t = "bool" -> [j |-> IF v.b THEN "true" ELSE "false"]
      [] v.t = "int" -> [j |-> "integer", n |-> v.i]
      [] v.t = "float" -> [j |-> "real", x |-> v.f]
      [] v.t = "str" -> [j |-> "string", cs |-> v.s]
      [] v.t = "list" -> [j |-> "array", items |-> [k \in 1..Len(v.l) |-> JsonEncode(v.l[k])]]

RECURSIVE JsonDecode(_)
JsonDecode(tok) ==
    CASE tok.j = "null" -> VNone
      [] tok.j = "true" -> VBool(TRUE)
      [] tok.j = "false" -> VBool(FALSE)
      [] tok.j = "integer" -> VInt(tok.n)
      [] tok.j = "real" -> VFloat(tok.x)
      [] tok.j = "string" -> VStr(tok.cs)
      [] tok.j = "array" -> VList([k \in 1..Len(tok.items) |-> JsonDecode(tok.items[k])])

\* json.dumps(mapping)
JsonDumps(m) ==
    JsonText(<<[j |-> "{"]>>
             \o [k \in 1..Len(m.d) |-> [j |-> "pair", key |-> m.d[k][1], val |-> JsonEncode(m.d[k][2])]]
             \o <<[j |-> "}"]>>)

\* json.loads(x): only text can be decoded; anything else is a TypeError
JsonLoads(x) ==
    IF x.t # "str" THEN Raise("TypeError")
    ELSE IF IsText(x) \/ Len(x.j) < 2 THEN Raise("ValueError")
    ELSE Ok(VDict([k \in 1..(Len(x.j) - 2) |-> <<x.j[k + 1].key, JsonDecode(x.j[k + 1].val)>>]))

\* `key in mapping`
DictHas(m, key) == \E k \in 1..Len(m.d) : m.d[k][1] = key

\* mapping[key]
DictGet(m, key) == m.d[CHOOSE k \in 1..Len(m.d) : m.d[k][1] = key][2]

\* mapping[key] = value
DictPut(m, key, value) ==
    IF DictHas(m, key)
    THEN VDict([k \in 1..Len(m.d) |-> IF m.d[k][1] = key THEN <<key, value>> ELSE m.d[k]])
    ELSE VDict(Append(m.d, <<key, value>>))

(***************************************************************************)
(* The node types of the registry (LightChild subclasses found by tag):    *)
(* their descriptors, get_fields_to_save() and the attributes that reject  *)
(* assignment.  runtime and xmodule_runtime are read-only properties of    *)
(* every LightChild.                                                       *)
(***************************************************************************)
NoFields == [f \in {} |-> "String"]

LightChildReadOnly == {"runtime", "xmodule_runtime"}

Registry ==
    [html |-> [fields |-> NoFields, tosave |-> <<>>, readonly |-> LightChildReadOnly],
     answer |-> [fields |-> [count |-> "Integer"], tosave |-> <<"count">>,
                 readonly |-> LightChildReadOnly],
     quiz |-> [fields |-> [count |-> "Integer", done |-> "Boolean"],
               tosave |-> <<"count", "done">>, readonly |-> LightChildReadOnly],
     locked |-> [fields |-> [count |-> "Integer"], tosave |-> <<>>,
                 readonly |-> LightChildReadOnly \cup {"url_name"}],
     sampler |-> [fields |-> [title |-> "String", count |-> "Integer", done |-> "Boolean",
                              weight |-> "Float", tags |-> "List"],
                  tosave |-> <<>>, readonly |-> LightChildReadOnly]]

\* the host block (XBlockWithLightChildren); url_name is a read-only property
\* in some runtimes
ContainerClass(urlNameLocked) ==
    [fields |-> NoFields, tosave |-> <<>>,
     readonly |-> IF urlNameLocked THEN {"url_name"} ELSE {}]

CommentTag == "#comment"

\* LightChild.load_class(xml_tag) succeeds
Resolves(tag) == tag \in DOMAIN Registry

ClassOf(node) == IF node.cls = "container" THEN ContainerClass(node.locked) ELSE Registry[node.cls]

\* the text of a non-negative child index
RECURSIVE NatText(_)
NatText(n) == IF n < 10 THEN <<Digits[n + 1]>> ELSE NatText(n \div 10) \o <<Digits[(n % 10) + 1]>>

\* str(value) as format() renders it
TextOf(v) == CASE v.t = "none" -> <<"N", "o", "n", "e">>
               [] v.t = "str" -> v.s
               [] v.t = "int" -> NatText(v.i)
               [] OTHER -> <<"?">>

\* '{}_{}'.format(block.name, child_id)
ChildName(parentName, child_id) == VStr(TextOf(parentName) \o <<"_">> \o NatText(child_id))

\* "{}-{}".format(self.xblock_container.url_name, name)
QualifiedName(urlName, name) == TextOf(urlName) \o <<"-">> \o TextOf(name)

(***************************************************************************)
(* One request's object graph and the persisted rows.  A world is          *)
(*   nodes : node id -> node, the id being the path of child indices       *)
(*           (<<>> is the host block);                                     *)
(*   store : (student, course, qualified name) -> the row's student_data;  *)
(*   log   : the row saves performed by the running handler, in order;     *)
(*   exc   : the exception that ended the handler, or "none";              *)
(*   student : the request's anonymous_student_id.                         *)
(***************************************************************************)
CourseId == "course"

NoAttrs == [a \in {} |-> VNone]

AttrPut(attrs, k, v) == [a \in DOMAIN attrs \cup {k} |-> IF a = k THEN v ELSE attrs[a]]

AttrGet(attrs, k, default) == IF k \in DOMAIN attrs THEN attrs[k] ELSE default

\* LightChild.__init__(parent): _student_data_loaded = False, nothing else set
NewNode(cls, name) ==
    [cls |-> cls, locked |-> FALSE, name |-> name,
     data |-> [f \in DOMAIN Registry[cls].fields |-> Unset],
     loaded |-> FALSE, sd |-> Unset, kids |-> <<>>, content |-> Unset, attrs |-> NoAttrs]

\* runtime.construct_xblock_from_class(cls, keys): the host block
NewContainer(name, urlNameLocked, attrs) ==
    [cls |-> "container", locked |-> urlNameLocked, name |-> name,
     data |-> NoFields, loaded |-> FALSE, sd |-> Unset, kids |-> <<>>,
     content |-> Unset, attrs |-> attrs]

\* the url_name a locked host block's runtime answers
RuntimeUrlName == VStr(<<"u", "1">>)

\* self.xblock_container.url_name
ContainerUrlName(w) ==
    IF w.nodes[<<>>].locked THEN RuntimeUrlName
    ELSE AttrGet(w.nodes[<<>>].attrs, "url_name", VNone)

WithNode(w, n, node) == [w EXCEPT !.nodes = [x \in DOMAIN w.nodes \cup {n} |-> IF x = n THEN node ELSE w.nodes[x]]]

WithExc(w, e) == [w EXCEPT !.exc = e]

\* a descriptor's __set__ on a node: the coerced value lands in self.data
StoreField(w, n, name, r) ==
    IF r.exc # "none" THEN WithExc(w, r.exc)
    ELSE WithNode(w, n, [w.nodes[n] EXCEPT !.data[name] = r.val])

\* setattr(block, name, value): a read-only property rejects with AttributeError,
\* a LightChildField goes through its __set__, anything else lands on the instance
SetAttr(w, n, name, value) ==
    IF name \in ClassOf(w.nodes[n]).readonly THEN WithExc(w, "AttributeError")
    ELSE IF name \in DOMAIN ClassOf(w.nodes[n]).fields
    THEN StoreField(w, n, name, FieldSet(ClassOf(w.nodes[n]).fields[name], value))
    ELSE IF name = "name" THEN WithNode(w, n, [w.nodes[n] EXCEPT !.name = value])
    ELSE IF name = "student_data" THEN WithNode(w, n, [w.nodes[n] EXCEPT !.sd = value])
    ELSE WithNode(w, n, [w.nodes[n] EXCEPT !.attrs = AttrPut(@, name, value)])

RowKey(w, name) == <<w.student, CourseId, QualifiedName(ContainerUrlName(w), name)>>

\* LightChildModel.objects.get_or_create(student_id, course_id, name): the row,
\* created with empty student_data when there is none
GetOrCreate(rows, key) ==
    IF key \in DOMAIN rows THEN rows
    ELSE [k \in DOMAIN rows \cup {key} |-> IF k = key THEN JsonText(<<>>) ELSE rows[k]]

\* the body of get_lightchild_model_object once `name` is settled: ValueError
\* when it is not set, else the row is fetched or created; the result is [w, key]
ResolveRow(w, name) ==
    IF ~Truthy(name) THEN [w |-> WithExc(w, "ValueError"), key |-> <<>>]
    ELSE [w |-> [w EXCEPT !.store = GetOrCreate(w.store, RowKey(w, name))],
          key |-> RowKey(w, name)]

\* the handler's record of what it did to node n
Emit(w, e, n) == IF w.exc # "none" THEN w ELSE [w EXCEPT !.ev = Append(@, [e |-> e, n |-> n])]

\* get_lightchild_model_object(name=None)
\* (GetLightchildModelObjectOwnName: the variant that ignores the argument)
GetLightchildModelObjectOwnName(w, n, nameArg) == ResolveRow(w, w.nodes[n].name)
GetLightchildModelObject(w, n, nameArg) ==
    ResolveRow(w, IF ~Truthy(nameArg) THEN w.nodes[n].name ELSE nameArg)

\* the lazy property keeps what it computed on the instance
CacheStudentData(w, n, text) ==
    [w |-> WithNode(w, n, [w.nodes[n] EXCEPT !.sd = text]), val |-> text]

RowText(r, n) == CacheStudentData(r.w, n, r.w.store[r.key])

\* the lazy student_data property: the instance's own value when it has one
\* (computed before, or assigned by save), else '' for a node without a name,
\* else the row's text
StudentData(w, n) ==
    IF w.nodes[n].sd # Unset THEN [w |-> w, val |-> w.nodes[n].sd]
    ELSE IF ~Truthy(w.nodes[n].name) THEN CacheStudentData(w, n, VStr(<<>>))
    ELSE RowText(GetLightchildModelObject(Emit(w, "read_row", n), n, VNone), n)

\* the loop of load_student_data: setattr(self, field, student_data[field])
\* for each declared field present in the mapping
RECURSIVE LoadFields(_, _, _, _)
LoadFields(w, n, fields, mapping) ==
    IF Len(fields) = 0 \/ w.exc # "none" THEN w
    ELSE LoadFields(IF DictHas(mapping, fields[1])
                    THEN SetAttr(w, n, fields[1], DictGet(mapping, fields[1]))
                    ELSE w,
                    n, Tail(fields), mapping)

\* the flag assignment that ends load_student_data (MarkLoadedNever: the variant
\* that leaves the flag as it is)
MarkLoadedNever(w, n) == w
MarkLoaded(w, n) == IF w.exc # "none" THEN w ELSE WithNode(w, n, [w.nodes[n] EXCEPT !.loaded = TRUE])

\* load_student_data from json.loads on
LoadDecoded(w, n, decoded) ==
    IF decoded.exc # "none" THEN WithExc(w, decoded.exc)
    ELSE MarkLoaded(LoadFields(Emit(w, "merge", n), n, ClassOf(w.nodes[n]).tosave, decoded.val), n)

\* load_student_data once self.student_data is read: nothing to do when it is empty
LoadFrom(r, n) == IF ~Truthy(r.val) THEN r.w ELSE LoadDecoded(r.w, n, JsonLoads(r.val))

\* load_student_data()
LoadStudentData(w, n) ==
    IF w.exc # "none" \/ w.nodes[n].loaded THEN w
    ELSE IF Len(ClassOf(w.nodes[n]).tosave) = 0 THEN Emit(w, "load", n)
    ELSE LoadFrom(StudentData(Emit(w, "load", n), n), n)

\* self.data.get(instance, self.default)
Held(node, f) == IF node.data[f] = Unset THEN DefaultOf(ClassOf(node).fields[f]) ELSE node.data[f]

Got(w, n, f) == [w |-> w, val |-> Held(w.nodes[n], f)]

\* LightChildField.__get__: load, then the held value
FieldGet(w, n, f) == Got(LoadStudentData(w, n), n, f)

\* self.student_data[field] = <the value getattr returned>
PutField(r, n, f) ==
    IF r.w.exc # "none" THEN r.w
    ELSE WithNode(r.w, n, [r.w.nodes[n] EXCEPT !.sd = DictPut(@, f, r.val)])

\* the loop of save: self.student_data[field] = getattr(self, field)
RECURSIVE CollectFields(_, _, _)
CollectFields(w, n, fields) ==
    IF Len(fields) = 0 \/ w.exc # "none" THEN w
    ELSE CollectFields(PutField(FieldGet(w, n, fields[1]), n, fields[1]), n, Tail(fields))

\* lightchild_data.student_data != self.student_data
RowDiffers(rowText, mapping) == ~PyEq(rowText, mapping)

\* lightchild_data.student_data = json.dumps(...); lightchild_data.save()
WriteRow(w, key, text) ==
    [w EXCEPT !.store[key] = text,
              !.log = Append(@, [key |-> key, before |-> w.store[key], after |-> text])]

\* the row object fetched with text rowText is compared with the mapping and,
\* when it differs, given the encoded mapping and saved (SaveRowUnlessChanged:
\* the variant that gives way to a row changed since it was fetched)
SaveRowUnlessChanged(w, n, key, rowText) ==
    IF w.store[key] = rowText /\ RowDiffers(rowText, w.nodes[n].sd)
    THEN WriteRow(Emit(w, "write", n), key, JsonDumps(w.nodes[n].sd))
    ELSE w
SaveRow(w, n, key, rowText) ==
    IF RowDiffers(rowText, w.nodes[n].sd)
    THEN WriteRow(Emit(w, "write", n), key, JsonDumps(w.nodes[n].sd))
    ELSE w

CompareAndWrite(r, n) ==
    IF r.w.exc # "none" THEN r.w
    ELSE SaveRow(r.w, n, r.key, r.w.store[r.key])

\* the tail of save: only a node with a name has a row
\* (SaveOwnRowWithoutNameGuard: the variant without `if self.name:`)
SaveOwnRowWithoutNameGuard(w, n) ==
    IF w.exc # "none" THEN w
    ELSE CompareAndWrite(GetLightchildModelObject(Emit(w, "save_row", n), n, VNone), n)
SaveOwnRow(w, n) ==
    IF w.exc # "none" \/ ~Truthy(w.nodes[n].name) THEN w
    ELSE CompareAndWrite(GetLightchildModelObject(Emit(w, "save_row", n), n, VNone), n)

\* self.student_data = {}
ResetStudentData(w, n) == WithNode(w, n, [w.nodes[n] EXCEPT !.sd = VDict(<<>>)])

\* save() after the children: the mapping is collected and the row written
SaveSelf(w, n) ==
    IF w.exc # "none" THEN w
    ELSE SaveOwnRow(CollectFields(ResetStudentData(w, n), n, ClassOf(w.nodes[n]).tosave), n)

\* save(): the children first, in order, then the node itself
RECURSIVE Save(_, _)
RECURSIVE SaveChildren(_, _)
SaveChildren(w, kids) ==
    IF Len(kids) = 0 \/ w.exc # "none" THEN w
    ELSE SaveChildren(Save(w, kids[1]), Tail(kids))

\* (SaveSelfFirst: the variant that writes the node's row before its children's)
SaveSelfFirst(w, n) == SaveChildren(SaveSelf(w, n), w.nodes[n].kids)
Save(w, n) == SaveSelf(SaveChildren(w, w.nodes[n].kids), n)

(***************************************************************************)
(* The tree builder.  A markup node is [tag, attrs, text, kids]; a comment *)
(* is a node whose tag is CommentTag.                                      *)
(***************************************************************************)
Element(tag, attrs, text, kids) == [tag |-> tag, attrs |-> attrs, text |-> text, kids |-> kids]

Comment == Element(CommentTag, <<>>, <<>>, <<>>)

\* the index enumerate(node) gives the k-th entry of a node (k from 1)
EnumerateIndex(xml, k) == k - 1

\* the attribute loop of init_block_from_node: an AttributeError is swallowed
\* for url_name only (ApplyAttrsRaisesOnUrlName: the variant that swallows none)
RECURSIVE ApplyAttrsRaisesOnUrlName(_, _, _)
ApplyAttrsRaisesOnUrlName(w, n, attr) ==
    IF Len(attr) = 0 \/ w.exc # "none" THEN w
    ELSE ApplyAttrsRaisesOnUrlName(SetAttr(w, n, attr[1][1], attr[1][2]), n, Tail(attr))

RECURSIVE ApplyAttrs(_, _, _)
ApplyAttrs(w, n, attr) ==
    IF Len(attr) = 0 \/ w.exc # "none" THEN w
    ELSE LET w1 == SetAttr(w, n, attr[1][1], attr[1][2])
         IN IF w1.exc = "AttributeError" /\ attr[1][1] = "url_name"
            THEN ApplyAttrs(w, n, Tail(attr))
            ELSE ApplyAttrs(w1, n, Tail(attr))

\* child.content = text.strip() when the text is not blank
WithContent(node, text) ==
    IF Len(text) > 0 /\ Len(Strip(text)) > 0
    THEN [node EXCEPT !.content = VStr(Strip(text))]
    ELSE node

RECURSIVE InitBlockFromNode(_, _, _)
RECURSIVE AddNodeAsChild(_, _, _, _)
RECURSIVE AddChildren(_, _, _, _)

\* the enumerate loop of init_block_from_node, from entry k on
AddChildren(w, n, xml, k) ==
    IF k > Len(xml.kids) \/ w.exc # "none" THEN w
    ELSE AddChildren(AddNodeAsChild(w, n, xml.kids[k], EnumerateIndex(xml, k)), n, xml, k + 1)

\* add_node_as_child as it would be if an unresolved tag were passed over
AddNodeAsChildSkipsUnknownTag(w, n, xml_child, child_id) ==
    IF xml_child.tag = CommentTag \/ ~Resolves(xml_child.tag) THEN w
    ELSE LET c == Append(n, child_id)
             w1 == WithNode(w, c, NewNode(xml_child.tag, ChildName(w.nodes[n].name, child_id)))
             w2 == InitBlockFromNode(w1, c, xml_child)
         IN IF w2.exc # "none" THEN w2
            ELSE LET w3 == WithNode(w2, c, WithContent(w2.nodes[c], xml_child.text))
                 IN WithNode(w3, n, [w3.nodes[n] EXCEPT !.kids = Append(@, c)])

\* add_node_as_child(block, xml_child, child_id)
AddNodeAsChild(w, n, xml_child, child_id) ==
    IF xml_child.tag = CommentTag THEN w
    ELSE IF ~Resolves(xml_child.tag) THEN WithExc(w, "LookupError")
    ELSE LET c == Append(n, child_id)
             w1 == WithNode(w, c, NewNode(xml_child.tag, ChildName(w.nodes[n].name, child_id)))
             w2 == InitBlockFromNode(w1, c, xml_child)
         IN IF w2.exc # "none" THEN w2
            ELSE LET w3 == WithNode(w2, c, WithContent(w2.nodes[c], xml_child.text))
                 IN WithNode(w3, n, [w3.nodes[n] EXCEPT !.kids = Append(@, c)])

\* init_block_from_node(block, node, attr) (InitBlockFromNodeAttrsFirst: the
\* variant that applies the attributes before it builds the children)
InitBlockFromNodeAttrsFirst(w, n, xml) ==
    AddChildren(ApplyAttrs(WithNode(w, n, [w.nodes[n] EXCEPT !.kids = <<>>]), n, xml.attrs), n, xml, 1)
InitBlockFromNode(w, n, xml) ==
    LET w1 == WithNode(w, n, [w.nodes[n] EXCEPT !.kids = <<>>])
        w2 == AddChildren(w1, n, xml, 1)
    IN ApplyAttrs(w2, n, xml.attrs)

\* etree.tostring(node, encoding='unicode'): the markup as text
EtreeToString(xml) == [t |-> "str", xml |-> xml]

\* etree.XMLParser(remove_comments=True): the parsed tree has no comment nodes
RECURSIVE RemoveComments(_)
RemoveComments(xml) ==
    LET keep == SelectSeq(xml.kids, LAMBDA x : x.tag # CommentTag)
    IN [xml EXCEPT !.kids = [k \in 1..Len(keep) |-> RemoveComments(keep[k])]]

\* etree.parse(StringIO(text), parser).getroot() (ParseTextKeepingComments: the
\* variant with a parser that keeps the comments)
ParseTextKeepingComments(text) == text.xml
ParseText(text) == RemoveComments(text.xml)

(***************************************************************************)
(* State.                                                                  *)
(***************************************************************************)
VARIABLES
    doc,      \* the authored markup node handed to parse_xml
    phase,    \* "new", "parsed" (built by parse_xml), "loaded" (built from xml_content)
    nodes,    \* the request's object graph
    store,    \* the persisted rows
    log,      \* the row saves of the handler that ran last
    events,   \* what the handler that ran last did, in order: load attempts, row reads, merges, row writes
    exc,      \* the exception that ended the handler that ran last, or "none"
    student,  \* the student of the running request
    last,     \* the handler that ran last, its arguments and its result
    snap,     \* the field values held when save() last started, for the round trip
    reqs      \* the requests that run side by side, each with its own object graph

vars == <<doc, phase, nodes, store, log, events, exc, student, last, snap, reqs>>

World == [nodes |-> nodes, store |-> store, log |-> <<>>, ev |-> <<>>, exc |-> "none", student |-> student]

NoNodes == [n \in {} |-> Unset]

NoRows == [k \in {} |-> Unset]

NoReqs == [r \in {} |-> Unset]

NoSnap == [stage |-> "clean", n |-> <<>>, vals |-> <<>>]

Dirty == [stage |-> "dirty", n |-> <<>>, vals |-> <<>>]

NoOp == [op |-> "none", n |-> <<>>, f |-> "", arg |-> Unset, ret |-> Unset]

Op(op, n, f, arg, ret) == [op |-> op, n |-> n, f |-> f, arg |-> arg, ret |-> ret]

\* the default of the host block's xml_content field
DefaultXmlContent == VStr(<<>>)

\* the tail of parse_xml: the markup is kept as xml_content when the field is
\* still at its default (KeepXmlContentAlways: the variant that keeps it in any case)
KeepXmlContentAlways(w, xml) ==
    IF w.exc # "none" THEN w
    ELSE WithNode(w, <<>>, [w.nodes[<<>>] EXCEPT !.attrs = AttrPut(@, "xml_content", EtreeToString(xml))])
KeepXmlContent(w, xml) ==
    IF w.exc # "none" THEN w
    ELSE IF PyEq(AttrGet(w.nodes[<<>>].attrs, "xml_content", DefaultXmlContent), DefaultXmlContent)
    THEN WithNode(w, <<>>, [w.nodes[<<>>] EXCEPT
                              !.attrs = AttrPut(@, "xml_content", EtreeToString(xml))])
    ELSE w

\* parse_xml(node, runtime, keys, id_generator) on a block just constructed
ParseXmlOn(w, xml) == KeepXmlContent(InitBlockFromNode(w, <<>>, xml), xml)

\* a value of xml_content that is no stored text but something callable
Callable == [t |-> "callable"]

\* load_children_from_xml_content()
LoadChildrenFromXmlContent(w) ==
    LET block == [w.nodes[<<>>] EXCEPT !.kids = <<>>]
        w1 == [w EXCEPT !.nodes = [n \in {<<>>} |-> block]]
        content == AttrGet(block.attrs, "xml_content", Unset)
    IN IF ~Truthy(content) \/ content = Callable THEN w1
       ELSE InitBlockFromNode(w1, <<>>, ParseText(content))

(***************************************************************************)
(* The markup the builder is run on: every forest of at most MaxNodes      *)
(* nodes over a few element shapes and the comment.                        *)
(***************************************************************************)
MaxNodes == 3

Txt(str) == VStr(str)

ElementShapes ==
    {[tag |-> "html", attrs |-> <<>>, text |-> <<" ", "h", "i", " ">>],
     [tag |-> "answer", attrs |-> << <<"count", Txt(<<"3">>)>> >>, text |-> <<>>],
     [tag |-> "quiz", attrs |-> << <<"name", Txt(<<"x">>)>> >>, text |-> <<" ">>],
     [tag |-> "locked", attrs |-> << <<"url_name", Txt(<<"u", "2">>)>>, <<"count", Txt(<<"7">>)>> >>,
      text |-> <<>>],
     [tag |-> "html", attrs |-> << <<"runtime", Txt(<<"r">>)>> >>, text |-> <<>>],
     [tag |-> "bogus", attrs |-> <<>>, text |-> <<>>]}

RECURSIVE XmlSize(_)
RECURSIVE XmlSizeOfSeq(_)
XmlSizeOfSeq(xs) == IF Len(xs) = 0 THEN 0 ELSE XmlSize(xs[1]) + XmlSizeOfSeq(Tail(xs))

XmlSize(xml) == 1 + XmlSizeOfSeq(xml.kids)

RECURSIVE Forests(_, _)
Forests(shapes, n) ==
    IF n = 0 THEN {<<>>}
    ELSE LET trees == {Comment} \cup
                      {Element(sh.tag, sh.attrs, sh.text, f) : sh \in shapes, f \in Forests(shapes, n - 1)}
         IN {<<>>} \cup
            UNION {{<<tr>> \o rest : rest \in Forests(shapes, n - XmlSize(tr))} : tr \in trees}

RootVariants ==
    {[attrs |-> <<>>, locked |-> FALSE],
     [attrs |-> << <<"url_name", Txt(<<"u", "1">>)>> >>, locked |-> FALSE],
     [attrs |-> << <<"url_name", Txt(<<"u", "9">>)>>, <<"name", Txt(<<"m">>)>> >>, locked |-> TRUE]}

BuildDocs ==
    {[locked |-> rv.locked, xml |-> Element("container", rv.attrs, <<>>, f)] :
        rv \in RootVariants, f \in Forests(ElementShapes, MaxNodes)}

(***************************************************************************)
(* SpecBuild: a block is parsed from authored markup (parse_xml), then a   *)
(* later request constructs it again from the stored xml_content.          *)
(***************************************************************************)
StudentIds == {"s1", "s2"}

InitBuild ==
    /\ doc \in BuildDocs
    /\ phase = "new"
    /\ nodes = NoNodes
    /\ store = NoRows
    /\ log = <<>>
    /\ events = <<>>
    /\ exc = "none"
    /\ student = "s1"
    /\ last = NoOp
    /\ snap = NoSnap
    /\ reqs = NoReqs

\* XBlock.name before any attribute is applied
FreshBlockName == VNone

\* parse_xml: the block is constructed and built from the markup node
ParseXml ==
    /\ phase = "new"
    /\ LET w0 == [World EXCEPT !.nodes = [n \in {<<>>} |-> NewContainer(FreshBlockName, doc.locked, NoAttrs)]]
           w == ParseXmlOn(w0, doc.xml)
       IN /\ nodes' = w.nodes
          /\ exc' = w.exc
    /\ phase' = "parsed"
    /\ last' = Op("parse_xml", <<>>, "", Unset, Unset)
    /\ UNCHANGED <<doc, store, log, events, student, snap, reqs>>

\* XBlockWithLightChildren.__init__ in a later request: the block comes back
\* with its stored fields and rebuilds its children from xml_content
Construct ==
    /\ phase \in {"parsed", "loaded"}
    /\ exc = "none"
    /\ LET block == nodes[<<>>]
           w0 == [World EXCEPT !.nodes = [n \in {<<>>} |->
                     NewContainer(block.name, block.locked, block.attrs)]]
           w == LoadChildrenFromXmlContent(w0)
       IN /\ nodes' = w.nodes
          /\ exc' = w.exc
    /\ phase' = "loaded"
    /\ last' = Op("construct", <<>>, "", Unset, Unset)
    /\ UNCHANGED <<doc, store, log, events, student, snap, reqs>>

NextBuild == ParseXml \/ Construct

SpecBuild == InitBuild /\ [][NextBuild]_vars

(***************************************************************************)
(* Reading the markup, for the properties of the builder.                  *)
(***************************************************************************)
RECURSIVE XmlAt(_, _)
XmlAt(xml, path) == IF Len(path) = 0 THEN xml ELSE XmlAt(xml.kids[path[1] + 1], Tail(path))

\* the non-comment element children, in document order
ElementKids(xml) == SelectSeq(xml.kids, LAMBDA x : x.tag # CommentTag)

RECURSIVE ElementPaths(_, _)
ElementPaths(xml, prefix) ==
    {prefix} \cup UNION {ElementPaths(xml.kids[k], Append(prefix, k - 1)) :
                            k \in {m \in 1..Len(xml.kids) : xml.kids[m].tag # CommentTag}}

\* a comes before b in document order (an ancestor comes before its descendants)
DocBefore(a, b) ==
    \/ Len(a) < Len(b) /\ SubSeq(b, 1, Len(a)) = a
    \/ \E i \in 1..Len(a) : /\ i <= Len(b)
                            /\ SubSeq(a, 1, i - 1) = SubSeq(b, 1, i - 1)
                            /\ a[i] < b[i]

HasAttr(xml, name) == \E k \in 1..Len(xml.attrs) : xml.attrs[k][1] = name

\* the markup the tree in nodes was built from
SourceXml == IF phase = "loaded" THEN ParseText(nodes[<<>>].attrs["xml_content"]) ELSE doc.xml

Built == phase \in {"parsed", "loaded"}

TagClass(xml, path) == IF Len(path) = 0 THEN ContainerClass(doc.locked) ELSE Registry[xml.tag]

\* the failures of a build in the order the markup meets them: an unresolved
\* tag fails where the element starts, a rejected attribute (other than
\* url_name) where the element ends
RECURSIVE FailSeq(_, _)
RECURSIVE FailSeqOfKids(_, _)
FailSeqOfKids(xml, k) ==
    IF k > Len(xml.kids) THEN <<>>
    ELSE (IF xml.kids[k].tag = CommentTag THEN <<>>
          ELSE IF xml.kids[k].tag \notin DOMAIN Registry THEN <<"LookupError">>
          ELSE FailSeq(xml.kids[k], Registry[xml.kids[k].tag].readonly))
         \o FailSeqOfKids(xml, k + 1)

FailSeq(xml, readonly) ==
    FailSeqOfKids(xml, 1)
    \o (IF \E k \in 1..Len(xml.attrs) : xml.attrs[k][1] \in readonly \ {"url_name"}
        THEN <<"AttributeError">> ELSE <<>>)

FirstFailure(xml) ==
    LET fs == FailSeq(xml, ContainerClass(doc.locked).readonly)
    IN IF Len(fs) = 0 THEN "none" ELSE fs[1]

UnresolvedPaths(xml) == {q \in ElementPaths(xml, <<>>) : Len(q) > 0 /\ XmlAt(xml, q).tag \notin DOMAIN Registry}

(***************************************************************************)
(* C1: for every markup node with N non-comment element children the built *)
(* node has exactly N light children, in document order, named             *)
(* {parent name}_0 .. {parent name}_{N-1}, on the parse_xml path and on    *)
(* the xml_content path alike (stated for markup that names no node by a   *)
(* name attribute).                                                        *)
(***************************************************************************)
RECURSIVE NoNameAttr(_)
NoNameAttr(xml) == ~HasAttr(xml, "name") /\ \A k \in 1..Len(xml.kids) : NoNameAttr(xml.kids[k])

RECURSIVE Conforms(_, _)
Conforms(n, xml) ==
    LET elems == ElementKids(xml)
        kids == nodes[n].kids
    IN /\ Len(kids) = Len(elems)
       /\ \A k \in 1..Len(kids) :
            /\ nodes[kids[k]].cls = elems[k].tag
            /\ nodes[kids[k]].name = ChildName(nodes[n].name, k - 1)
            /\ Conforms(kids[k], elems[k])

C1_ChildrenNumberedWithoutComments ==
    (Built /\ exc = "none" /\ NoNameAttr(doc.xml)) => Conforms(<<>>, doc.xml)

\* the part of C1 the code keeps: trees built from the stored xml_content
C1_HoldsOnStoredMarkupPath ==
    (phase = "loaded" /\ exc = "none" /\ NoNameAttr(doc.xml)) => Conforms(<<>>, doc.xml)

(***************************************************************************)
(* C8: after a build every markup attribute of every built node has been   *)
(* assigned; a rejected url_name is skipped without error and the          *)
(* attributes after it are still assigned; a rejected assignment of any    *)
(* other attribute ends the build with AttributeError.                     *)
(***************************************************************************)
Assigned(n, node, name, value) ==
    LET cls == ClassOf(node)
    IN IF name \in DOMAIN cls.fields THEN node.data[name] = FieldSet(cls.fields[name], value).val
       ELSE IF name = "name" THEN node.name = value
       ELSE name \in DOMAIN node.attrs /\ node.attrs[name] = value

C8_AttributesAssigned ==
    Built =>
      /\ exc = "none" =>
            \A n \in DOMAIN nodes :
                LET x == XmlAt(SourceXml, n)
                IN \A k \in 1..Len(x.attrs) :
                     IF x.attrs[k][1] \in ClassOf(nodes[n]).readonly
                     THEN x.attrs[k][1] = "url_name" /\ "url_name" \notin DOMAIN nodes[n].attrs
                     ELSE Assigned(n, nodes[n], x.attrs[k][1], x.attrs[k][2])
      /\ (phase = "parsed" /\ FirstFailure(doc.xml) = "AttributeError") => exc = "AttributeError"
      /\ (phase = "parsed" /\ FirstFailure(doc.xml) = "none") => exc = "none"

C8_Witness ==
    /\ phase = "parsed" /\ exc = "none"
    /\ \E n \in DOMAIN nodes :
         /\ nodes[n].cls = "locked"
         /\ HasAttr(XmlAt(doc.xml, n), "url_name")
         /\ "url_name" \notin DOMAIN nodes[n].attrs
         /\ nodes[n].data["count"] = VInt(7)

(***************************************************************************)
(* C9 as stated: markup with an unresolved tag always ends the parse with  *)
(* the lookup error.                                                       *)
(***************************************************************************)
C9_AlwaysLookupError ==
    (phase = "parsed" /\ UnresolvedPaths(doc.xml) # {}) => exc = "LookupError"

(***************************************************************************)
(* C9 amended: markup with an unresolved tag never parses successfully;    *)
(* the parse ends with the first failure the markup meets, which is the    *)
(* lookup error unless a rejected attribute assignment comes before it;    *)
(* no node exists for an unresolved element or for an element after it.    *)
(***************************************************************************)
C9_UnresolvedTagFailsParse ==
    (phase = "parsed" /\ UnresolvedPaths(doc.xml) # {}) =>
        /\ exc # "none"
        /\ exc = FirstFailure(doc.xml)
        /\ ~(\E q \in ElementPaths(doc.xml, <<>>) :
                \E k \in 1..Len(XmlAt(doc.xml, q).attrs) :
                    XmlAt(doc.xml, q).attrs[k][1] \in TagClass(XmlAt(doc.xml, q), q).readonly \ {"url_name"})
              => exc = "LookupError"
        /\ \A q \in UnresolvedPaths(doc.xml) : \A n \in DOMAIN nodes : DocBefore(n, q)

C9_Witness ==
    /\ phase = "parsed" /\ exc = "LookupError"
    /\ \E q \in UnresolvedPaths(doc.xml) : Len(q) = 2
    /\ Cardinality(DOMAIN nodes) = 3

(***************************************************************************)
(* Spec: the requests of one student on a block whose markup is stored.    *)
(* A request constructs the block (the tree is rebuilt from xml_content)   *)
(* and then runs handlers that write fields, read fields, load state and   *)
(* save nodes; a handler that raises ends the request.                     *)
(***************************************************************************)
T(str) == VStr(str)

UrlNameAttr == << <<"url_name", T(<<"u", "1">>)>> >>

EmptyName == << <<"name", T(<<>>)>> >>

Leaf(tag, attrs) == Element(tag, attrs, <<>>, <<>>)

LifeDocs ==
    {[locked |-> FALSE, xml |-> Element("container", UrlNameAttr, <<>>, forest)] :
        forest \in {<<Leaf("answer", <<>>)>>,
                    <<Leaf("quiz", <<>>)>>,
                    <<Leaf("answer", EmptyName)>>,
                    <<Leaf("quiz", EmptyName)>>,
                    <<Element("quiz", <<>>, <<>>, <<Leaf("answer", <<>>)>>)>>,
                    <<Element("answer", EmptyName, <<>>, <<Leaf("answer", <<>>)>>)>>}}

\* the values handlers assign to fields
SetInputs(f) == IF f = "count" THEN {T(<<"a", "b", "c">>), T(<<"4", "2">>)}
                ELSE {T(<<"T", "R", "U", "E">>)}

\* the block as a request finds it: its fields as stored, its children rebuilt
FreshTree(d) ==
    LoadChildrenFromXmlContent(
        [nodes |-> [n \in {<<>>} |->
                      NewContainer(FreshBlockName, d.locked,
                                   AttrPut(AttrPut(NoAttrs, "url_name", T(<<"u", "1">>)),
                                           "xml_content", EtreeToString(d.xml)))],
         store |-> NoRows, log |-> <<>>, ev |-> <<>>, exc |-> "none", student |-> "s1"]).nodes

Init ==
    /\ doc \in LifeDocs
    /\ phase = "loaded"
    /\ nodes = FreshTree(doc)
    /\ store = NoRows
    /\ log = <<>>
    /\ events = <<>>
    /\ exc = "none"
    /\ student = "s1"
    /\ last = NoOp
    /\ snap = NoSnap
    /\ reqs = NoReqs

LightChildren == DOMAIN nodes \ {<<>>}

\* node m is n or below n
Under(m, n) == Len(m) >= Len(n) /\ SubSeq(m, 1, Len(n)) = n

\* the node's declared fields have been read in this request (a read attempts the load)
WasRead(node) == Len(ClassOf(node).tosave) = 0 \/ node.loaded \/ node.sd # Unset

DeclaredValues(node) == [k \in 1..Len(ClassOf(node).tosave) |-> Held(node, ClassOf(node).tosave[k])]

\* the handler leaves the world w behind
Becomes(w) ==
    /\ nodes' = w.nodes
    /\ store' = w.store
    /\ log' = w.log
    /\ events' = w.ev
    /\ exc' = w.exc

\* getattr's result, kept with the field's last assignment when that came right before
Returned(r, n, f) ==
    /\ Becomes(r.w)
    /\ last' = Op("get", n, f,
                  IF last.op = "set" /\ last.n = n /\ last.f = f THEN last.arg ELSE Unset,
                  IF r.w.exc = "none" THEN r.val ELSE Unset)

\* setattr(node, f, value) by a handler
SetField(n, f, value) ==
    /\ exc = "none"
    /\ Becomes(SetAttr(World, n, f, value))
    /\ last' = Op("set", n, f, value, Unset)
    /\ snap' = Dirty
    /\ UNCHANGED <<doc, phase, student, reqs>>

\* getattr(node, f) by a handler
ReadField(n, f) ==
    /\ exc = "none"
    /\ Returned(FieldGet(World, n, f), n, f)
    /\ UNCHANGED <<doc, phase, student, snap, reqs>>

\* node.load_student_data() by a handler
LoadState(n) ==
    /\ exc = "none"
    /\ Becomes(LoadStudentData(World, n))
    /\ last' = Op("load", n, "", Unset, Unset)
    /\ UNCHANGED <<doc, phase, student, snap, reqs>>

\* node.save() by a handler
SaveNode(n) ==
    /\ exc = "none"
    /\ Becomes(Save(World, n))
    /\ last' = Op("save", n, "", VBool(last.op = "save" /\ last.n = n), Unset)
    /\ snap' = IF snap.stage \in {"clean", "fresh"} /\ \A m \in LightChildren : Under(m, n) => WasRead(nodes[m])
                THEN [stage |-> "saved", n |-> n,
                      vals |-> [m \in {x \in LightChildren : Under(x, n)} |-> DeclaredValues(nodes[m])]]
                ELSE Dirty
    /\ UNCHANGED <<doc, phase, student, reqs>>

\* the next request of the student: the block is constructed again
NewRequest ==
    /\ last.op # "construct"
    /\ nodes' = FreshTree(doc)
    /\ exc' = "none"
    /\ log' = <<>>
    /\ events' = <<>>
    /\ last' = Op("construct", <<>>, "", Unset, Unset)
    /\ snap' = IF snap.stage = "saved" THEN [snap EXCEPT !.stage = "fresh"] ELSE NoSnap
    /\ UNCHANGED <<doc, phase, store, student, reqs>>

Next ==
    \/ \E n \in LightChildren : \E f \in DOMAIN ClassOf(nodes[n]).fields :
          \E value \in SetInputs(f) : SetField(n, f, value)
    \/ \E n \in LightChildren : \E f \in DOMAIN ClassOf(nodes[n]).fields : ReadField(n, f)
    \/ \E n \in LightChildren : LoadState(n)
    \/ \E n \in LightChildren : SaveNode(n)
    \/ NewRequest

Spec == Init /\ [][Next]_vars

(***************************************************************************)
(* Properties of save, load and the descriptors under Spec.                *)
(***************************************************************************)
OwnKey(n) == RowKey(World, nodes[n].name)

FieldIndex(node, f) == CHOOSE k \in 1..Len(ClassOf(node).tosave) : ClassOf(node).tosave[k] = f

\* {field: current value} over the declared fields, as save collects it
CurrentMapping(node) ==
    VDict([k \in 1..Len(ClassOf(node).tosave) |->
              <<ClassOf(node).tosave[k], Held(node, ClassOf(node).tosave[k])>>])

Decodable(text) == text.t = "str" /\ "j" \in DOMAIN text /\ Len(text.j) >= 2

(***************************************************************************)
(* C2: a save() that directly follows a completed save() of the same node  *)
(* writes no row, and no save() rewrites a row whose decoded content       *)
(* equals the mapping being saved.                                         *)
(***************************************************************************)
C2_SaveIsIdempotent ==
    (last.op = "save" /\ exc = "none") =>
        /\ last.arg = VBool(TRUE) => log = <<>>
        /\ \A k \in 1..Len(log) :
              ~(Decodable(log[k].before) /\ JsonLoads(log[k].before).val = JsonLoads(log[k].after).val)

(***************************************************************************)
(* C3: values read, then saved without any write in the request, come back *)
(* in a fresh tree of the next request: the save completes and every       *)
(* declared field of every saved node reads as it stood before the save.   *)
(***************************************************************************)
C3_RoundTrip ==
    /\ (last.op = "save" /\ snap.stage = "saved") => exc = "none"
    /\ (last.op = "get" /\ snap.stage = "fresh" /\ last.n \in DOMAIN snap.vals
          /\ \E k \in 1..Len(ClassOf(nodes[last.n]).tosave) : ClassOf(nodes[last.n]).tosave[k] = last.f) =>
            /\ exc = "none"
            /\ PyEq(last.ret, snap.vals[last.n][FieldIndex(nodes[last.n], last.f)])

\* the round trip of C3 for node types that declare one field
C3_RoundTripOfSingleFieldNodes ==
    (\A n \in LightChildren : Len(ClassOf(nodes[n]).tosave) <= 1) => C3_RoundTrip

C6_ReadAfterSet ==
    (last.op = "get" /\ last.f = "count") =>
        /\ last.arg = T(<<"a", "b", "c">>) => (exc = "none" /\ last.ret = VInt(0))
        /\ last.arg = T(<<"4", "2">>) => (exc = "none" /\ last.ret = VInt(42))

(***************************************************************************)
(* C10: save() of a node with a name completes, and the node's row then    *)
(* decodes to the mapping of each declared field to its current value.     *)
(***************************************************************************)
C10_SaveWritesCurrentValues ==
    (last.op = "save" /\ Truthy(nodes[last.n].name)) =>
        /\ exc = "none"
        /\ OwnKey(last.n) \in DOMAIN store
        /\ Decodable(store[OwnKey(last.n)])
        /\ JsonLoads(store[OwnKey(last.n)]).val = CurrentMapping(nodes[last.n])

\* the part of C10 the code keeps: node types that declare at most one field
C10_HoldsForSingleFieldNodes ==
    (\A n \in LightChildren : Len(ClassOf(nodes[n]).tosave) <= 1) => C10_SaveWritesCurrentValues

(***************************************************************************)
(* SpecCoerce: one write to a field of each kind, with every sample input, *)
(* followed by reads.                                                      *)
(***************************************************************************)
SampleTexts ==
    {<<"a", "b", "c">>, <<"4", "2">>, <<"-", "7">>, <<" ", "4", "2", " ">>, <<"3", ".", "5">>,
     <<"T", "R", "U", "E">>, <<"t", "r", "u", "e">>, <<"T", "r", "u", "e">>, <<"n", "o">>,
     <<"F", "a", "l", "s", "e">>, <<>>}

CoerceInputs ==
    {T(cs) : cs \in SampleTexts}
    \cup {VNone, VBool(TRUE), VBool(FALSE), VInt(0), VInt(42), VInt(-3),
          VFloat(35), VFloat(-27), VList(<<>>), VList(<<VInt(1)>>)}

SamplerDoc == [locked |-> FALSE, xml |-> Element("container", UrlNameAttr, <<>>, <<Leaf("sampler", <<>>)>>)]

InitCoerce ==
    /\ doc = SamplerDoc
    /\ phase = "loaded"
    /\ nodes = FreshTree(doc)
    /\ store = NoRows
    /\ log = <<>>
    /\ events = <<>>
    /\ exc = "none"
    /\ student = "s1"
    /\ last = NoOp
    /\ snap = NoSnap
    /\ reqs = NoReqs

NextCoerce ==
    \/ \E f \in DOMAIN Registry["sampler"].fields : \E value \in CoerceInputs :
          last.op = "none" /\ SetField(<<0>>, f, value)
    \/ \E f \in DOMAIN Registry["sampler"].fields : last.op # "none" /\ ReadField(<<0>>, f)

SpecCoerce == InitCoerce /\ [][NextCoerce]_vars

(***************************************************************************)
(* C7: a write never raises and stores a value fixed by the field kind and *)
(* the input: Integer the base-10 integer or 0, Float the decimal or 0,    *)
(* Boolean true exactly for text spelling "true" in any case and the value *)
(* itself when it is not text, String and List the value as given.         *)
(***************************************************************************)
ExpectedInteger(value) ==
    CASE value = T(<<"4", "2">>) -> VInt(42)
      [] value = T(<<" ", "4", "2", " ">>) -> VInt(42)
      [] value = T(<<"-", "7">>) -> VInt(-7)
      [] value = VBool(TRUE) -> VInt(1)
      [] value = VFloat(35) -> VInt(3)
      [] value = VFloat(-27) -> VInt(-2)
      [] value.t = "int" -> value
      [] OTHER -> VInt(0)

ExpectedFloat(value) ==
    CASE value = T(<<"4", "2">>) -> VFloat(420)
      [] value = T(<<" ", "4", "2", " ">>) -> VFloat(420)
      [] value = T(<<"-", "7">>) -> VFloat(-70)
      [] value = T(<<"3", ".", "5">>) -> VFloat(35)
      [] value = VBool(TRUE) -> VFloat(10)
      [] value = VBool(FALSE) -> VFloat(0)
      [] value.t = "int" -> VFloat(10 * value.i)
      [] value.t = "float" -> value
      [] OTHER -> VInt(0)

ExpectedBoolean(value) ==
    IF value.t = "str"
    THEN VBool(value \in {T(<<"T", "R", "U", "E">>), T(<<"t", "r", "u", "e">>), T(<<"T", "r", "u", "e">>)})
    ELSE value

ExpectedStored(kind, value) ==
    CASE kind = "Integer" -> ExpectedInteger(value)
      [] kind = "Float" -> ExpectedFloat(value)
      [] kind = "Boolean" -> ExpectedBoolean(value)
      [] OTHER -> value

C7_CoercionOnWrite ==
    last.op = "set" =>
        /\ exc = "none"
        /\ nodes[last.n].data[last.f] = ExpectedStored(ClassOf(nodes[last.n]).fields[last.f], last.arg)
        /\ \A f \in DOMAIN nodes[last.n].data : f # last.f => nodes[last.n].data[f] = Unset

C7_Witness ==
    /\ last.op = "set" /\ last.f = "done" /\ last.arg = T(<<"T", "R", "U", "E">>)
    /\ nodes[last.n].data["done"] = VBool(TRUE)

(***************************************************************************)
(* SpecConc: requests that run side by side on the same store.  Each has   *)
(* its own object graph, built from the markup it finds; its steps are     *)
(* separated wherever it goes to the store: the lazy load of a read, the   *)
(* row lookup of save, the row write of save.                              *)
(***************************************************************************)
Requests == {"r1", "r2"}

\* the requests served in all
MaxRequests == 3

ConcDocs ==
    {[locked |-> FALSE, xml |-> Element("container", UrlNameAttr, <<>>, <<Leaf(tag, <<>>)>>)] :
        tag \in {"answer", "quiz"}}

\* the students a request may come from
StudentsOf(t) == IF t = "r1" THEN {"s1"} ELSE StudentIds

NoRow == [key |-> <<>>, text |-> Unset]

Idle == [pc |-> "idle", student |-> "s1", nodes |-> NoNodes, row |-> NoRow, served |-> 0]

\* the one light child of a ConcDocs tree
TheChild == <<0>>

WorldOf(t) ==
    [nodes |-> reqs[t].nodes, store |-> store, log |-> <<>>, ev |-> <<>>, exc |-> "none", student |-> reqs[t].student]

InitConc ==
    /\ doc \in ConcDocs
    /\ phase = "loaded"
    /\ nodes = NoNodes
    /\ store = NoRows
    /\ log = <<>>
    /\ events = <<>>
    /\ exc = "none"
    /\ student = "s1"
    /\ last = NoOp
    /\ snap = NoSnap
    /\ reqs = [t \in Requests |-> Idle]

\* request t goes on from world w at position pc, or ends when w holds an exception
Settles(t, w, pc) ==
    /\ reqs' = [reqs EXCEPT ![t].nodes = w.nodes,
                            ![t].pc = IF w.exc # "none" THEN "failed" ELSE pc]
    /\ store' = w.store

\* the author stores other markup in xml_content
EditMarkup(d) ==
    /\ doc # d
    /\ doc' = d
    /\ UNCHANGED <<phase, nodes, store, log, events, exc, student, last, snap, reqs>>

Served == reqs["r1"].served + reqs["r2"].served

\* a request arrives: the block is constructed and its children rebuilt
Begin(t, s) ==
    /\ reqs[t].pc \in {"idle", "done", "failed"}
    /\ Served < MaxRequests
    /\ reqs' = [reqs EXCEPT ![t] = [pc |-> "running", student |-> s, nodes |-> FreshTree(doc),
                                    row |-> NoRow, served |-> reqs[t].served + 1]]
    /\ UNCHANGED <<doc, phase, nodes, store, log, events, exc, student, last, snap>>

\* setattr(node, f, value) by the handler of request t
Assign(t, f, value) ==
    /\ reqs[t].pc = "running"
    /\ Settles(t, SetAttr(WorldOf(t), TheChild, f, value), "running")
    /\ UNCHANGED <<doc, phase, nodes, log, events, exc, student, last, snap>>

\* getattr(node, f) by the handler of request t
Fetch(t, f) ==
    /\ reqs[t].pc = "running"
    /\ Settles(t, FieldGet(WorldOf(t), TheChild, f).w, "running")
    /\ UNCHANGED <<doc, phase, nodes, log, events, exc, student, last, snap>>

\* save() up to the name test: children, self.student_data = {}, the field loop
SaveCollect(t) ==
    /\ reqs[t].pc = "running"
    /\ Settles(t, CollectFields(ResetStudentData(SaveChildren(WorldOf(t), reqs[t].nodes[TheChild].kids),
                                                 TheChild),
                                TheChild, ClassOf(reqs[t].nodes[TheChild]).tosave),
               IF Truthy(reqs[t].nodes[TheChild].name) THEN "collected" ELSE "done")
    /\ UNCHANGED <<doc, phase, nodes, log, events, exc, student, last, snap>>

\* the row object save() works on: its key and the text it was fetched with
FetchedRow(r) == [key |-> r.key, text |-> IF r.w.exc = "none" THEN r.w.store[r.key] ELSE Unset]

RowFetched(t, r) ==
    /\ reqs' = [reqs EXCEPT ![t].row = FetchedRow(r),
                            ![t].pc = IF r.w.exc # "none" THEN "failed" ELSE "fetched"]
    /\ store' = r.w.store

\* save(): lightchild_data = self.get_lightchild_model_object()
SaveFetch(t) ==
    /\ reqs[t].pc = "collected"
    /\ RowFetched(t, GetLightchildModelObject(WorldOf(t), TheChild, VNone))
    /\ UNCHANGED <<doc, phase, nodes, log, events, exc, student, last, snap>>

\* save(): the comparison, the assignment of the text and lightchild_data.save()
SaveWrite(t) ==
    /\ reqs[t].pc = "fetched"
    /\ Settles(t, SaveRow(WorldOf(t), TheChild, reqs[t].row.key, reqs[t].row.text), "done")
    /\ UNCHANGED <<doc, phase, nodes, log, events, exc, student, last, snap>>

ConcInputs(f) == IF f = "count" THEN {T(<<"4", "2">>)} ELSE {T(<<"T", "R", "U", "E">>)}

FieldsOf(t) == DOMAIN ClassOf(reqs[t].nodes[TheChild]).fields

NextConc ==
    \/ \E d \in ConcDocs : EditMarkup(d)
    \/ \E t \in Requests : \E s \in StudentsOf(t) : Begin(t, s)
    \/ \E t \in Requests : reqs[t].pc = "running" /\ \E f \in FieldsOf(t) :
          \E value \in ConcInputs(f) : Assign(t, f, value)
    \/ \E t \in Requests : reqs[t].pc = "running" /\ \E f \in FieldsOf(t) : Fetch(t, f)
    \/ \E t \in Requests : SaveCollect(t)
    \/ \E t \in Requests : SaveFetch(t)
    \/ \E t \in Requests : SaveWrite(t)

SpecConc == InitConc /\ [][NextConc]_vars

(***************************************************************************)
(* C5: when requests save side by side, a row changes only by the row      *)
(* write of a save(), which leaves in the row of its own key exactly the   *)
(* complete mapping of the writing request, whatever the row held when the *)
(* request fetched it or holds now: the write that happens last wins, the  *)
(* content is never a mixture, every other row is left as it was, and the  *)
(* key has its row from the first lookup on.                               *)
(***************************************************************************)
Writes(t) == reqs[t].pc = "fetched" /\ reqs'[t].pc = "done"

MappingText(t) == JsonDumps(CurrentMapping(reqs[t].nodes[TheChild]))

C5_LastWriteWins ==
    [][/\ \A k \in DOMAIN store :
             /\ k \in DOMAIN store'
             /\ store'[k] # store[k] =>
                    \E t \in DOMAIN reqs : Writes(t) /\ reqs[t].row.key = k
       /\ \A t \in DOMAIN reqs :
             /\ Writes(t) => store'[reqs[t].row.key] = MappingText(t)
             /\ reqs'[t].pc = "fetched" =>
                    reqs'[t].row.key = RowKey(WorldOf(t), reqs[t].nodes[TheChild].name)
                    /\ reqs'[t].row.key \in DOMAIN store']_vars

\* two requests of the same student have fetched the same row before either
\* wrote it, and both have written a two-field mapping of their own
C5_Witness ==
    /\ \A t \in Requests : reqs[t].pc = "done" /\ reqs[t].nodes[TheChild].cls = "quiz"
    /\ reqs["r1"].row = reqs["r2"].row
    /\ reqs["r1"].row.text # JsonDumps(reqs["r1"].nodes[TheChild].sd)
    /\ reqs["r2"].row.text # JsonDumps(reqs["r2"].nodes[TheChild].sd)
    /\ reqs["r1"].nodes[TheChild].sd # reqs["r2"].nodes[TheChild].sd
    /\ store[reqs["r1"].row.key] = JsonDumps(reqs["r1"].nodes[TheChild].sd)

(***************************************************************************)
(* What a handler did, read from its events.                               *)
(***************************************************************************)
EventsOf(evs, e, n) == {k \in 1..Len(evs) : evs[k].e = e /\ evs[k].n = n}

\* the step keeps the node instances (every handler but the construction of the next request)
SameInstances == last'.op \in {"set", "get", "load", "save"}

\* _student_data_loaded is not reset while the instance lives
LoadedStays == \A n \in DOMAIN nodes : nodes[n].loaded => (n \in DOMAIN nodes' /\ nodes'[n].loaded)

(***************************************************************************)
(* C11: a node's load state only moves forward: once _student_data_loaded  *)
(* is true no read, write, load or save resets it; and save() starts no    *)
(* load attempt (load_student_data getting past its loaded test) on a node *)
(* it saves.                                                               *)
(***************************************************************************)
C11_LoadStateOnlyForward ==
    /\ [][SameInstances => LoadedStays]_vars
    /\ [](last.op = "save" =>
            \A m \in LightChildren : Under(m, last.n) => EventsOf(events, "load", m) = {})

\* the part of C11 the code keeps: the flag is never reset
C11_LoadedNeverReset == [][SameInstances => LoadedStays]_vars

(***************************************************************************)
(* C12: over the reads and writes of a node instance, a read of a node     *)
(* that is not loaded makes exactly one load attempt (and a read of a      *)
(* loaded node none); the row is merged into the fields at most once and   *)
(* fetched for loading at most once per instance (a merge happens only on  *)
(* a node not yet loaded and leaves it loaded for good, a fetch only while *)
(* student_data is not yet computed and leaves it computed for good); a    *)
(* write makes no load attempt, fetches no row and changes no loaded flag. *)
(***************************************************************************)
Count(evs, e, n) == Cardinality(EventsOf(evs, e, n))

StudentDataStays == \A n \in DOMAIN nodes : nodes[n].sd # Unset => nodes'[n].sd # Unset

C12_LoadAtMostOnce ==
    [][SameInstances =>
        /\ LoadedStays
        /\ StudentDataStays
        /\ \A n \in LightChildren :
              /\ Count(events', "merge", n) <= 1
              /\ Count(events', "read_row", n) <= 1
              /\ nodes[n].loaded => Count(events', "merge", n) = 0 /\ Count(events', "load", n) = 0
              /\ Count(events', "merge", n) = 1 => nodes'[n].loaded
              /\ nodes[n].sd # Unset => Count(events', "read_row", n) = 0
              /\ Count(events', "read_row", n) = 1 => nodes'[n].sd # Unset
        /\ last'.op = "get" =>
              /\ Count(events', "load", last'.n) = (IF nodes[last'.n].loaded THEN 0 ELSE 1)
              /\ \A m \in LightChildren : m # last'.n => Count(events', "load", m) = 0
        /\ last'.op = "set" =>
              /\ events' = <<>>
              /\ store' = store
              /\ \A n \in LightChildren : nodes'[n].loaded = nodes[n].loaded /\ nodes'[n].sd = nodes[n].sd]_vars

\* a read has fetched the row and merged it, and left the node loaded
C12_Witness ==
    /\ last.op = "get" /\ exc = "none"
    /\ events = <<[e |-> "load", n |-> last.n], [e |-> "read_row", n |-> last.n], [e |-> "merge", n |-> last.n]>>
    /\ nodes[last.n].loaded

(***************************************************************************)
(* C13: load_student_data() changes nothing (no field, no flag, no row)    *)
(* when the node is loaded already, has no name, declares no persisted     *)
(* field or has no row content; otherwise it completes, assigns through    *)
(* the field's own coercion exactly the declared fields found in the       *)
(* decoded row, leaves every other field as it was and sets the flag.      *)
(***************************************************************************)
HasRowContent(n) == OwnKey(n) \in DOMAIN store /\ Decodable(store[OwnKey(n)])

NothingToLoad(n) ==
    \/ nodes[n].loaded
    \/ ~Truthy(nodes[n].name)
    \/ Len(ClassOf(nodes[n]).tosave) = 0
    \/ ~HasRowContent(n)

IsDeclared(node, f) == \E k \in 1..Len(ClassOf(node).tosave) : ClassOf(node).tosave[k] = f

\* the fields of node n after a load from the row mapping
MergedFrom(n, mapping) ==
    [f \in DOMAIN nodes[n].data |->
        IF IsDeclared(nodes[n], f) /\ DictHas(mapping, f)
        THEN FieldSet(ClassOf(nodes[n]).fields[f], DictGet(mapping, f)).val
        ELSE nodes[n].data[f]]

C13_LoadEffect ==
    [][last'.op = "load" =>
        LET n == last'.n
        IN /\ exc' = "none"
           /\ \A m \in LightChildren : m # n =>
                 nodes'[m].data = nodes[m].data /\ nodes'[m].loaded = nodes[m].loaded
           /\ IF NothingToLoad(n)
              THEN /\ nodes'[n].data = nodes[n].data
                   /\ nodes'[n].loaded = nodes[n].loaded
                   /\ store' = store
              ELSE /\ nodes'[n].data = MergedFrom(n, JsonLoads(store[OwnKey(n)]).val)
                   /\ nodes'[n].loaded
                   /\ store' = store]_vars

\* C13 without the requirement that an absent row stays absent
C13_LoadEffectOnFields ==
    [][last'.op = "load" =>
        LET n == last'.n
        IN /\ exc' = "none"
           /\ IF NothingToLoad(n)
              THEN nodes'[n].data = nodes[n].data /\ nodes'[n].loaded = nodes[n].loaded
              ELSE nodes'[n].data = MergedFrom(n, JsonLoads(store[OwnKey(n)]).val) /\ nodes'[n].loaded]_vars

(***************************************************************************)
(* SpecSave: the requests of Spec on trees whose saved node has children.  *)
(***************************************************************************)
SaveDocs ==
    {[locked |-> FALSE, xml |-> Element("container", UrlNameAttr, <<>>,
                                        <<Element("answer", <<>>, <<>>, <<Leaf(a, <<>>), Leaf(b, <<>>)>>)>>)] :
        a \in {"answer"}, b \in {"answer", "quiz"}}

InitSave ==
    /\ doc \in SaveDocs
    /\ phase = "loaded"
    /\ nodes = FreshTree(doc)
    /\ store = NoRows
    /\ log = <<>>
    /\ events = <<>>
    /\ exc = "none"
    /\ student = "s1"
    /\ last = NoOp
    /\ snap = NoSnap
    /\ reqs = NoReqs

NextSave ==
    \/ \E n \in LightChildren : SetField(n, "count", T(<<"4", "2">>))
    \/ \E n \in LightChildren : ReadField(n, "count")
    \/ \E n \in LightChildren : SaveNode(n)
    \/ NewRequest

SpecSave == InitSave /\ [][NextSave]_vars

(***************************************************************************)
(* C14: save() is bottom-up.  What one save() call does comes node by node *)
(* in post-order: everything about a descendant (its load attempts, its    *)
(* row lookup, its row write) before the node's own row is looked up or    *)
(* written, children in document order; a save that completes has looked   *)
(* up the row of every named node it covers; a save that fails has neither *)
(* looked up nor written the row of the node it was called on.             *)
(***************************************************************************)
\* a comes before b when a tree is walked children first
PostBefore(a, b) == a # b /\ (Under(a, b) \/ (~Under(b, a) /\ DocBefore(a, b)))

Covered(n) == {m \in LightChildren : Under(m, n)}

C14_SaveIsBottomUp ==
    last.op = "save" =>
        /\ \A i \in 1..Len(events) : \A j \in 1..Len(events) :
              i < j => events[i].n = events[j].n \/ PostBefore(events[i].n, events[j].n)
        /\ \A m \in Covered(last.n) :
              /\ Count(events, "write", m) <= Count(events, "save_row", m)
              /\ Count(events, "save_row", m) <= 1
              /\ \A i \in EventsOf(events, "save_row", m) : \A j \in EventsOf(events, "write", m) : i < j
        /\ exc = "none" => \A m \in Covered(last.n) :
              Count(events, "save_row", m) = (IF Truthy(nodes[m].name) THEN 1 ELSE 0)
        /\ exc # "none" => Count(events, "save_row", last.n) = 0 /\ Count(events, "write", last.n) = 0
        /\ Len(log) = Cardinality({k \in 1..Len(events) : events[k].e = "write"})

\* a save of a node with two children completed: both children's rows, then its own
C14_Witness ==
    /\ last.op = "save" /\ last.n = <<0>> /\ exc = "none"
    /\ SelectSeq(events, LAMBDA ev : ev.e = "write") =
          <<[e |-> "write", n |-> <<0, 0>>], [e |-> "write", n |-> <<0, 1>>], [e |-> "write", n |-> <<0>>]>>

\* the second child's save failed after the first child's row was written
C14_WitnessOfFailure ==
    /\ last.op = "save" /\ last.n = <<0>> /\ exc # "none"
    /\ SelectSeq(events, LAMBDA ev : ev.e = "write") = <<[e |-> "write", n |-> <<0, 0>>]>>

(***************************************************************************)
(* SpecRow: handlers that ask a node for its row, or for the row of        *)
(* another name, between writes and saves.                                 *)
(***************************************************************************)
RowNames == {VNone, T(<<>>), T(<<"x">>), T(<<"N", "o", "n", "e", "_", "0", "_", "0">>)}

\* node.get_lightchild_model_object(name) by a handler
GetRow(n, nameArg) ==
    /\ exc = "none"
    /\ Becomes(GetLightchildModelObject(World, n, nameArg).w)
    /\ last' = Op("get_row", n, "", nameArg,
                  [t |-> "row", key |-> GetLightchildModelObject(World, n, nameArg).key])
    /\ UNCHANGED <<doc, phase, student, snap, reqs>>

NextRow ==
    \/ \E n \in LightChildren : \E nameArg \in RowNames : GetRow(n, nameArg)
    \/ \E n \in LightChildren : SetField(n, "count", T(<<"4", "2">>))
    \/ \E n \in LightChildren : SaveNode(n)
    \/ NewRequest

SpecRow == Init /\ [][NextRow]_vars

(***************************************************************************)
(* C15: get_lightchild_model_object(name) raises the configuration error   *)
(* (ValueError) and leaves the store alone exactly when neither the        *)
(* argument nor the node's own name is set; otherwise it returns the row   *)
(* keyed (student, course, "{container url_name}-{argument or own name}"), *)
(* inserting it empty when the store has none and leaving it as it is when *)
(* it has one; no other row and no node changes.                           *)
(***************************************************************************)
C15_ResolveRow ==
    [][last'.op = "get_row" =>
        LET nm == IF Truthy(last'.arg) THEN last'.arg ELSE nodes[last'.n].name
            key == <<student, "course", <<"u", "1", "-">> \o nm.s>>
        IN IF ~Truthy(nm)
           THEN exc' = "ValueError" /\ store' = store /\ nodes' = nodes
           ELSE /\ exc' = "none"
                /\ last'.ret.key = key
                /\ DOMAIN store' = DOMAIN store \cup {key}
                /\ \A k \in DOMAIN store : store'[k] = store[k]
                /\ key \notin DOMAIN store => store'[key] = JsonText(<<>>)
                /\ nodes' = nodes]_vars

\* the row of a name given as argument was returned again, with the content a save left in it
C15_Witness ==
    /\ last.op = "get_row" /\ exc = "none"
    /\ last.arg = T(<<"N", "o", "n", "e", "_", "0", "_", "0">>)
    /\ ~Truthy(nodes[last.n].name)
    /\ Decodable(store[last.ret.key])

(***************************************************************************)
(* SpecRebuild: a block is constructed, parsed from authored markup that   *)
(* may carry an xml_content attribute, has its xml_content replaced and    *)
(* its children rebuilt from it.                                           *)
(***************************************************************************)
RebuildNodes == 2

PlainShapes == {sh \in ElementShapes : sh.tag \in {"html", "answer"} /\ Len(sh.attrs) <= 1
                                        /\ \A k \in 1..Len(sh.attrs) : sh.attrs[k][1] = "count"}

\* markup kept as text elsewhere
OtherMarkup == EtreeToString(Element("container", <<>>, <<>>, <<Leaf("html", <<>>), Comment, Leaf("answer", <<>>)>>))

RebuildRootAttrs ==
    {<<>>, << <<"xml_content", DefaultXmlContent>> >>, << <<"xml_content", OtherMarkup>> >>}

RebuildDocs ==
    {[locked |-> FALSE, xml |-> Element("container", a, <<>>, f)] :
        a \in RebuildRootAttrs, f \in Forests(PlainShapes, RebuildNodes)}

StoredContents == {DefaultXmlContent, Callable, OtherMarkup, EtreeToString(Element("container", <<>>, <<>>, <<>>))}

InitRebuild ==
    /\ doc \in RebuildDocs
    /\ phase = "new"
    /\ nodes = NoNodes
    /\ store = NoRows
    /\ log = <<>>
    /\ events = <<>>
    /\ exc = "none"
    /\ student = "s1"
    /\ last = NoOp
    /\ snap = NoSnap
    /\ reqs = NoReqs

\* XBlockWithLightChildren.__init__ of a block that has no xml_content yet
FirstConstruct ==
    /\ phase = "new"
    /\ nodes = NoNodes
    /\ nodes' = LoadChildrenFromXmlContent(
                    [World EXCEPT !.nodes = [n \in {<<>>} |-> NewContainer(FreshBlockName, doc.locked, NoAttrs)]]).nodes
    /\ last' = Op("init", <<>>, "", Unset, Unset)
    /\ UNCHANGED <<doc, phase, store, log, events, exc, student, snap, reqs>>

\* block.xml_content = value
StoreXmlContent(value) ==
    /\ phase \in {"parsed", "loaded"}
    /\ exc = "none"
    /\ AttrGet(nodes[<<>>].attrs, "xml_content", Unset) # value
    /\ nodes' = SetAttr(World, <<>>, "xml_content", value).nodes
    /\ last' = Op("store", <<>>, "xml_content", value, Unset)
    /\ UNCHANGED <<doc, phase, store, log, events, exc, student, snap, reqs>>

\* block.load_children_from_xml_content(); the xml_content it found is kept in last
Rebuild ==
    /\ phase \in {"parsed", "loaded"}
    /\ exc = "none"
    /\ nodes' = LoadChildrenFromXmlContent(World).nodes
    /\ exc' = LoadChildrenFromXmlContent(World).exc
    /\ phase' = "loaded"
    /\ last' = Op("rebuild", <<>>, "", AttrGet(nodes[<<>>].attrs, "xml_content", Unset), Unset)
    /\ UNCHANGED <<doc, store, log, events, student, snap, reqs>>

NextRebuild ==
    \/ FirstConstruct
    \/ ParseXml
    \/ \E value \in StoredContents : StoreXmlContent(value)
    \/ Rebuild

SpecRebuild == InitRebuild /\ [][NextRebuild]_vars

(***************************************************************************)
(* C16 as stated: load_children_from_xml_content() leaves the block's tree *)
(* as it is when xml_content is unset, empty or not text, and otherwise    *)
(* leaves exactly the tree built from the stored markup.                   *)
(***************************************************************************)
NoContent(value) == value = Unset \/ value = VStr(<<>>) \/ value = Callable

Root == <<>>

RebuiltFromText ==
    (last.op = "rebuild" /\ ~NoContent(last.arg)) =>
        /\ exc = "none"
        /\ Conforms(Root, ParseText(last.arg))
        /\ DOMAIN nodes = ElementPaths(ParseText(last.arg), Root)

C16_NoContentKeepsTree ==
    /\ [][(last'.op = "rebuild" /\ NoContent(last'.arg)) => nodes' = nodes]_vars
    /\ []RebuiltFromText

(***************************************************************************)
(* C16 amended: load_children_from_xml_content() first empties the block's *)
(* child list; when xml_content is unset, empty or not text it stops       *)
(* there, so the block is left without children (whatever tree it had is   *)
(* dropped) and otherwise unchanged; else the children are exactly the     *)
(* tree built from the stored markup, comments stripped.                   *)
(***************************************************************************)
C16_RebuildFromXmlContent ==
    /\ [][(last'.op = "rebuild" /\ NoContent(last'.arg)) =>
            /\ exc' = "none"
            /\ nodes' = [n \in {Root} |-> [nodes[Root] EXCEPT !.kids = <<>>]]]_vars
    /\ [](last.op = "init" => DOMAIN nodes = {Root} /\ nodes[Root].kids = <<>>)
    /\ []RebuiltFromText

\* a block parsed from markup with a nested element was rebuilt from other stored
\* markup, and the nested node is gone
C16_Witness ==
    /\ last.op = "rebuild" /\ last.arg = OtherMarkup
    /\ Len(doc.xml.kids) = 1 /\ Len(doc.xml.kids[1].kids) = 1 /\ doc.xml.kids[1].kids[1].tag # CommentTag
    /\ <<0, 0>> \notin DOMAIN nodes
    /\ Len(nodes[Root].kids) = 2

\* a block with a tree and an empty xml_content was rebuilt and has no children left
C16_WitnessOfNoContent ==
    /\ last.op = "rebuild" /\ last.arg = VStr(<<>>)
    /\ Len(ElementKids(doc.xml)) > 0
    /\ nodes[Root].kids = <<>>

(***************************************************************************)
(* C17: parse_xml keeps the serialized markup node as xml_content exactly  *)
(* when xml_content is still the field's default once the tree is built    *)
(* and the attributes are applied; a value an xml_content attribute of the *)
(* markup gave it stays when it is not the default.                        *)
(***************************************************************************)
\* the value the markup's root gives xml_content by attribute, or the default
GivenXmlContent(xml) ==
    IF \E k \in 1..Len(xml.attrs) : xml.attrs[k][1] = "xml_content"
    THEN xml.attrs[CHOOSE k \in 1..Len(xml.attrs) : xml.attrs[k][1] = "xml_content"][2]
    ELSE VStr(<<>>)

C17_XmlContentKeptWhenDefault ==
    (last.op = "parse_xml" /\ exc = "none") =>
        /\ "xml_content" \in DOMAIN nodes[Root].attrs
        /\ nodes[Root].attrs["xml_content"] =
              (IF GivenXmlContent(doc.xml) = VStr(<<>>)
               THEN [t |-> "str", xml |-> doc.xml]
               ELSE GivenXmlContent(doc.xml))

\* the markup's own xml_content attribute survived the parse of a non-empty tree
C17_Witness ==
    /\ last.op = "parse_xml" /\ exc = "none"
    /\ GivenXmlContent(doc.xml) = OtherMarkup
    /\ nodes[Root].attrs["xml_content"] = OtherMarkup
    /\ Len(nodes[Root].kids) > 0

(***************************************************************************)
(* C18 as stated: after a build that completed, any two distinct light     *)
(* children have distinct names, hence distinct rows for a student, and    *)
(* every child is named {name of its parent}_{index}.                      *)
(***************************************************************************)
BuiltChildren == DOMAIN nodes \ {Root}

ParentOf(n) == SubSeq(n, 1, Len(n) - 1)

C18_NamesDistinct ==
    (Built /\ exc = "none") =>
        /\ \A n \in BuiltChildren : \A m \in BuiltChildren :
              n # m => /\ nodes[n].name # nodes[m].name
                       /\ RowKey(World, nodes[n].name) # RowKey(World, nodes[m].name)
        /\ \A n \in BuiltChildren : nodes[n].name = ChildName(nodes[ParentOf(n)].name, n[Len(n)])

(***************************************************************************)
(* C18 amended: a child is created with the name {name its parent has at   *)
(* that moment}_{index enumerate gave it}; a node's own name attribute is  *)
(* applied after its children are built and replaces that name.  So a node *)
(* without a name attribute is named by its position under the automatic   *)
(* names of its ancestors, two such nodes never share a name or a row, and *)
(* a node with a name attribute carries the attribute's value, whatever    *)
(* other node has the same name.                                           *)
(***************************************************************************)
\* the name the host block has while its children are created
RootNameAtBuild == IF phase = "parsed" THEN FreshBlockName ELSE nodes[Root].name

RECURSIVE AutoName(_)
AutoName(n) == IF Len(n) = 0 THEN RootNameAtBuild ELSE ChildName(AutoName(ParentOf(n)), n[Len(n)])

NamedByAttr(n) == HasAttr(XmlAt(SourceXml, n), "name")

AttrName(n) ==
    LET x == XmlAt(SourceXml, n)
    IN x.attrs[CHOOSE k \in 1..Len(x.attrs) : x.attrs[k][1] = "name"][2]

C18_NamesByPositionOrAttribute ==
    (Built /\ exc = "none") =>
        /\ \A n \in BuiltChildren :
              nodes[n].name = (IF NamedByAttr(n) THEN AttrName(n) ELSE AutoName(n))
        /\ \A n \in BuiltChildren : \A m \in BuiltChildren :
              (n # m /\ ~NamedByAttr(n) /\ ~NamedByAttr(m)) =>
                  /\ nodes[n].name # nodes[m].name
                  /\ RowKey(World, nodes[n].name) # RowKey(World, nodes[m].name)

\* two nodes carry the same name attribute and so the same row; one of them has a
\* child, named after the automatic name of its parent
C18_Witness ==
    /\ Built /\ exc = "none"
    /\ <<0>> \in DOMAIN nodes /\ <<1>> \in DOMAIN nodes /\ <<0, 0>> \in DOMAIN nodes
    /\ nodes[<<0>>].name = nodes[<<1>>].name
    /\ RowKey(World, nodes[<<0>>].name) = RowKey(World, nodes[<<1>>].name)
    /\ nodes[<<0, 0>>].name # ChildName(nodes[<<0>>].name, 0)

(***************************************************************************)
(* C19: save() loses no persisted value the request did not change: when   *)
(* the row of a node holds a value for a declared field and the node       *)
(* instance is saved with that field neither read nor written since it was *)
(* constructed, the row holds the same value for the field afterwards.     *)
(***************************************************************************)
RowMapping(rows, key) == JsonLoads(rows[key]).val

\* the instance was not read (no load attempted, student_data not computed) and f not written
Untouched(node, f) == ~node.loaded /\ node.sd = Unset /\ node.data[f] = Unset

C19_SaveKeepsUntouchedValues ==
    [][last'.op = "save" =>
        \A m \in Covered(last'.n) : \A f \in DOMAIN nodes[m].data :
            (/\ Truthy(nodes[m].name)
             /\ IsDeclared(nodes[m], f)
             /\ Untouched(nodes[m], f)
             /\ HasRowContent(m)
             /\ DictHas(RowMapping(store, OwnKey(m)), f)) =>
                /\ Decodable(store'[OwnKey(m)])
                /\ DictHas(RowMapping(store', OwnKey(m)), f)
                /\ DictGet(RowMapping(store', OwnKey(m)), f) = DictGet(RowMapping(store, OwnKey(m)), f)]_vars

(***************************************************************************)
(* C20: a node stays usable after save(): once save() of a named node with *)
(* a declared field has completed, a read of a declared field returns,     *)
(* without error, the value that save() wrote for it, and a save() that    *)
(* directly follows completes too.                                         *)
(***************************************************************************)
C20_UsableAfterSave ==
    [][(last.op = "save" /\ exc = "none" /\ Truthy(nodes[last.n].name)
          /\ Len(ClassOf(nodes[last.n]).tosave) > 0) =>
        /\ (last'.op = "get" /\ last'.n = last.n /\ IsDeclared(nodes[last.n], last'.f)) =>
              /\ exc' = "none"
              /\ last'.ret = DictGet(RowMapping(store, OwnKey(last.n)), last'.f)
        /\ (last'.op = "save" /\ last'.n = last.n) => exc' = "none"]_vars

\* the part of C20 the code keeps: the save that directly follows a completed save completes
C20_SecondSaveCompletes ==
    [][(last.op = "save" /\ exc = "none" /\ last'.op = "save" /\ last'.n = last.n) => exc' = "none"]_vars

====
